---- MODULE Spec2Model ----
(***************************************************************************)
(* Model of the AMQP drive of mq-subscriber (app/mq): the connection       *)
(* watcher (listenConn / reconnected), the per-identity channel watcher    *)
(* (SetChannel / listenChannel / refreshChannel / CloseChannel) and the    *)
(* consumer dispatch loop started by SetConsume.                           *)
(*                                                                         *)
(* Every successful SetChannel call creates three objects at once: a       *)
(* broker channel, a done channel and a close-notification channel.  The   *)
(* model numbers the calls and calls the triple created by the k-th call    *)
(* "slot k"; the registries map an identity to a slot number (Nil = the    *)
(* zero value of a registry that holds nothing for the identity).          *)
(***************************************************************************)
EXTENDS Integers, Sequences, FiniteSets, TLC

\* ------------------------------------------------------------------ bounds
IDs == {"a", "b"}          \* subscription identities
MaxSlots == 3              \* successful SetChannel calls in one run
MaxRetry == 1              \* failed dials before the broker is reachable again
MaxErrs == 2               \* longest error list the forwarder returns
MaxQueue == 1              \* deliveries waiting in one stream
MaxEvents == 5             \* API calls from outside, broker faults and deliveries in one run

Nil == 0
Slots == 1..MaxSlots

VARIABLES
    connOpen,          \* the connection c.conn refers to is open
    notifyConnClose,   \* "armed" by NewAmqpDrive, "rearmed" by reconnected, "closed": fired
    connPc,            \* connection watcher: "listen" (listenConn) or "retry" (reconnected)
    count,             \* reconnected's local count: dials that have failed (0 outside reconnected)
    nextSlot,          \* number of channels opened so far
    chState,           \* slot -> "free", "open", "lost" (broker/connection), "closed" (Close())
    owner,             \* slot -> identity the channel was opened for
    consumer,          \* slot -> option the channel consumes with, or NoOption
    channel,           \* registry c.channel:         identity -> slot
    channelDone,       \* registry c.channelDone:     identity -> slot
    channelReady,      \* registry c.channelReady:    identity -> BOOLEAN
    notifyChanClose,   \* registry c.notifyChanClose: identity -> slot
    wpc,               \* watcher spawned with slot k: position in listenChannel / refreshChannel
    wNotify,           \* the close-notification channel the watcher selects on
    wDone,             \* the done channel the watcher selects on
    wOpt,              \* refreshChannel's local `option`
    cpc,               \* CloseChannel(id) in flight: "idle", "send", "close"
    cDone,             \* the done channel CloseChannel(id) sends on
    lpc,               \* per-message loop of slot k: "none", "wait", "fetched", "returned", "ended"
    msgs,              \* delivery stream of slot k
    cur,               \* the delivery in hand and the forwarder's answer
    handled,           \* what the loop did with the delivery it handled last
    events,            \* API calls from outside, broker faults and deliveries so far
    last               \* the last API call that returned: [op, id, err]

connVars == <<connOpen, notifyConnClose, connPc, count>>
slotVars == <<nextSlot, chState, owner, consumer>>
regVars == <<channel, channelDone, notifyChanClose>>
watchVars == <<wpc, wNotify, wDone, wOpt>>
closeVars == <<cpc, cDone>>
loopVars == <<lpc, msgs, cur, handled>>
vars == <<connVars, slotVars, regVars, channelReady, watchVars, closeVars, loopVars, events, last>>

\* ------------------------------------------------------------ collaborators
NoOption == [Identity |-> "none", Queue |-> "none"]

\* c.schema.Get(ID): the SubscriptionConfig stored for the identity
SchemaGet(id) == [Identity |-> id, Queue |-> "queue-" \o id]

\* delivery bodies and response payloads, by the class the code distinguishes
Bodies == {"wellformed", "malformed"}
Payloads == {"object", "nonobject", "unparsable"}

\* the error lists actions.Fetch may return
ErrLists == {[i \in 1..n |-> [text |-> "e" \o ToString(i)]] : n \in 0..MaxErrs}

NoDelivery == [body |-> "none", errs |-> <<>>, resp |-> "none"]
NoOutcome == [slot |-> Nil, d |-> NoDelivery, ack |-> 0, nack |-> 0, requeue |-> FALSE, pushes |-> <<>>]

Init ==
    /\ connOpen = TRUE
    /\ notifyConnClose = "armed"
    /\ connPc = "listen"
    /\ count = 0
    /\ nextSlot = 0
    /\ chState = [k \in Slots |-> "free"]
    /\ owner = [k \in Slots |-> "none"]
    /\ consumer = [k \in Slots |-> NoOption]
    /\ channel = [id \in IDs |-> Nil]
    /\ channelDone = [id \in IDs |-> Nil]
    /\ channelReady = [id \in IDs |-> FALSE]
    /\ notifyChanClose = [id \in IDs |-> Nil]
    /\ wpc = [k \in Slots |-> "none"]
    /\ wNotify = [k \in Slots |-> Nil]
    /\ wDone = [k \in Slots |-> Nil]
    /\ wOpt = [k \in Slots |-> NoOption]
    /\ cpc = [id \in IDs |-> "idle"]
    /\ cDone = [id \in IDs |-> Nil]
    /\ lpc = [k \in Slots |-> "none"]
    /\ msgs = [k \in Slots |-> <<>>]
    /\ cur = [k \in Slots |-> NoDelivery]
    /\ handled = NoOutcome
    /\ events = 0
    /\ last = [op |-> "none", id |-> "none", err |-> FALSE]

\* ------------------------------------------------------ broker environment
IsClosed(k) == k # Nil /\ chState[k] \in {"lost", "closed"}

\* the broker closes one channel with a channel-level error
BrokerClose(k) ==
    /\ chState[k] = "open"
    /\ events < MaxEvents /\ events' = events + 1
    /\ chState' = [chState EXCEPT ![k] = "lost"]
    /\ UNCHANGED <<connVars, nextSlot, owner, consumer, regVars, channelReady,
                   watchVars, closeVars, loopVars, last>>

\* the connection drops: its close notification fires and every channel on it dies
ConnClose ==
    /\ connOpen
    /\ events < MaxEvents /\ events' = events + 1
    /\ connOpen' = FALSE
    /\ notifyConnClose' = "closed"
    /\ chState' = [k \in Slots |-> IF chState[k] = "open" THEN "lost" ELSE chState[k]]
    /\ UNCHANGED <<connPc, count, nextSlot, owner, consumer, regVars, channelReady,
                   watchVars, closeVars, loopVars, last>>

\* ------------------------------------------------------ connection watcher
\* listenConn: the select receives the close notification and calls reconnected
ListenConn ==
    /\ connPc = "listen"
    /\ notifyConnClose = "closed"
    /\ connPc' = "retry"
    /\ count' = 0
    /\ UNCHANGED <<connOpen, notifyConnClose, slotVars, regVars, channelReady,
                   watchVars, closeVars, loopVars, last, events>>

\* a reconnected that keeps the notification channel of the dead connection
RearmForgotten(old) == old

\* the notification channel reconnected leaves in c.notifyConnClose after a dial
Rearm(old) == "rearmed"

\* reconnected: one iteration of the loop (sleep, count++, dial).  The broker
\* refuses at most MaxRetry dials in a row; the function returns on the first
\* dial that succeeds and its counter goes with it.
Reconnected ==
    /\ connPc = "retry"
    /\ \E dialErr \in BOOLEAN :
         /\ dialErr => count < MaxRetry
         /\ IF dialErr
              THEN /\ count' = count + 1
                   /\ UNCHANGED <<connOpen, notifyConnClose, connPc>>
              ELSE /\ count' = 0
                   /\ connOpen' = TRUE
                   /\ notifyConnClose' = Rearm(notifyConnClose)
                   /\ connPc' = "listen"
    /\ UNCHANGED <<slotVars, regVars, channelReady, watchVars, closeVars, loopVars, last, events>>

\* -------------------------------------------------------------- SetChannel
\* a SetChannel that does not look at the error of c.conn.Channel()
ChannelErrIgnored == FALSE

\* c.conn.Channel() returns an error: the connection is closed
ChannelErr == ~connOpen

\* a SetChannel that stores the new channel under every identity
DoSetChannelShared(id, w) ==
    LET k == nextSlot + 1 IN
    /\ nextSlot < MaxSlots
    /\ nextSlot' = k
    /\ chState' = [chState EXCEPT ![k] = "open"]
    /\ owner' = [owner EXCEPT ![k] = id]
    /\ channel' = [i \in IDs |-> k]
    /\ channelDone' = [channelDone EXCEPT ![id] = k]
    /\ notifyChanClose' = [notifyChanClose EXCEPT ![id] = k]
    /\ wpc' = [w EXCEPT ![k] = "start"]

\* SetChannel past the error check: open the channel, store the channel, a
\* fresh done channel and a fresh close-notification channel under the
\* identity, spawn listenChannel.  w is wpc as the caller leaves it.
DoSetChannel(id, w) ==
    LET k == nextSlot + 1 IN
    /\ nextSlot < MaxSlots
    /\ nextSlot' = k
    /\ chState' = [chState EXCEPT ![k] = "open"]
    /\ owner' = [owner EXCEPT ![k] = id]
    /\ channel' = [channel EXCEPT ![id] = k]
    /\ channelDone' = [channelDone EXCEPT ![id] = k]
    /\ notifyChanClose' = [notifyChanClose EXCEPT ![id] = k]
    /\ wpc' = [w EXCEPT ![k] = "start"]

\* SetChannel(ID) called from outside the drive
SetChannel(id) ==
    /\ events < MaxEvents
    /\ events' = events + 1
    /\ IF ChannelErr
         THEN /\ last' = [op |-> "SetChannel", id |-> id, err |-> TRUE]
              /\ UNCHANGED <<nextSlot, chState, owner, regVars, wpc>>
         ELSE /\ DoSetChannel(id, wpc)
              /\ last' = [op |-> "SetChannel", id |-> id, err |-> FALSE]
    /\ UNCHANGED <<connVars, consumer, channelReady, wNotify, wDone, wOpt,
                   closeVars, loopVars>>

\* -------------------------------------------------------------- SetConsume
\* Channel.Consume on slot k fails unless the channel is open and has no
\* consumer with this tag yet (the tag is the identity)
ConsumeErr(k) == ~(chState[k] = "open" /\ consumer[k] = NoOption)

\* a SetConsume that marks the identity ready whatever Consume returned
ReadyAfterAlways(err) == TRUE

\* the value SetConsume stores in channelReady
ReadyAfter(err) == ~err

\* SetConsume(option) with the outcome err.  A second consumer with the same
\* tag on an open channel is a channel exception: the broker closes the channel.
DoSetConsume(option, err) ==
    LET id == option.Identity
        k == channel[id] IN
    /\ channelReady' = [channelReady EXCEPT ![id] = ReadyAfter(err)]
    /\ IF err
         THEN /\ chState' = [chState EXCEPT ![k] = IF @ = "open" THEN "lost" ELSE @]
              /\ UNCHANGED <<consumer, lpc>>
         ELSE /\ consumer' = [consumer EXCEPT ![k] = option]
              /\ lpc' = [lpc EXCEPT ![k] = "wait"]
              /\ UNCHANGED chState

\* SetConsume(option) called from outside the drive, for an identity that has a channel
SetConsume(id) ==
    /\ events < MaxEvents
    /\ events' = events + 1
    /\ channel[id] # Nil
    /\ LET err == ConsumeErr(channel[id]) IN
         /\ DoSetConsume(SchemaGet(id), err)
         /\ last' = [op |-> "SetConsume", id |-> id, err |-> err]
    /\ UNCHANGED <<connVars, nextSlot, owner, regVars, watchVars, closeVars,
                   msgs, cur, handled>>

\* ----------------------------------------------------------- listenChannel
\* the goroutine starts: the select evaluates both registry lookups
ListenChannelStart(k) ==
    /\ wpc[k] = "start"
    /\ wpc' = [wpc EXCEPT ![k] = "select"]
    /\ wNotify' = [wNotify EXCEPT ![k] = notifyChanClose[owner[k]]]
    /\ wDone' = [wDone EXCEPT ![k] = channelDone[owner[k]]]
    /\ UNCHANGED <<connVars, slotVars, regVars, channelReady, wOpt, closeVars,
                   loopVars, events, last>>

\* a listenChannel that refreshes without reading the readiness flag
AfterNotifyAlways(ready) == "refresh"

\* where listenChannel goes after a close notification
AfterNotify(ready) == IF ready THEN "refresh" ELSE "quiet"

\* case <-c.notifyChanClose.Get(ID)
ListenChannelNotified(k) ==
    /\ wpc[k] = "select"
    /\ IsClosed(wNotify[k])
    /\ LET to == AfterNotify(channelReady[owner[k]]) IN
         /\ wpc' = [wpc EXCEPT ![k] = to]
         /\ wNotify' = [wNotify EXCEPT ![k] = IF to = "quiet" THEN Nil ELSE @]
    /\ wDone' = [wDone EXCEPT ![k] = Nil]
    /\ UNCHANGED <<connVars, slotVars, regVars, channelReady, wOpt, closeVars,
                   loopVars, events, last>>

\* ----------------------------------------------------------- refreshChannel
\* a refreshChannel that retries a failed SetConsume whatever the flag says
AfterConsumeErrAlways(ready) == "refresh"

\* where refreshChannel goes after a failed SetConsume
AfterConsumeErr(ready) == IF ready THEN "refresh" ELSE "gaveup"

\* one pass through SetChannel and the configuration lookup
RefreshChannelOpen(k) ==
    /\ wpc[k] = "refresh"
    /\ IF ChannelErr
         THEN UNCHANGED <<nextSlot, chState, owner, regVars, wpc, wOpt, events>>
         ELSE \E lookupErr \in BOOLEAN :
                IF lookupErr
                  THEN /\ DoSetChannel(owner[k], wpc)
                       /\ events < MaxEvents /\ events' = events + 1
                       /\ UNCHANGED wOpt
                  ELSE /\ DoSetChannel(owner[k], [wpc EXCEPT ![k] = "consume"]) /\ UNCHANGED events
                       /\ wOpt' = [wOpt EXCEPT ![k] = SchemaGet(owner[k])]
    /\ UNCHANGED <<connVars, consumer, channelReady, wNotify, wDone, closeVars,
                   loopVars, last>>

\* err = c.SetConsume(option): on success the refresh is over, on failure the
\* loop goes on to read the readiness flag
RefreshChannelConsume(k) ==
    /\ wpc[k] = "consume"
    /\ LET id == wOpt[k].Identity
           err == ConsumeErr(channel[id]) IN
         /\ DoSetConsume(wOpt[k], err)
         /\ wpc' = [wpc EXCEPT ![k] = IF err THEN "check" ELSE "refreshed"]
         /\ wNotify' = [wNotify EXCEPT ![k] = IF err THEN @ ELSE Nil]
    /\ wOpt' = [wOpt EXCEPT ![k] = NoOption]
    /\ UNCHANGED <<connVars, nextSlot, owner, regVars, wDone, closeVars,
                   msgs, cur, handled, events, last>>

\* if c.channelReady.Get(ID) { continue } else { break }
RefreshChannelCheck(k) ==
    /\ wpc[k] = "check"
    /\ LET to == AfterConsumeErr(channelReady[owner[k]]) IN
         /\ wpc' = [wpc EXCEPT ![k] = to]
         /\ wNotify' = [wNotify EXCEPT ![k] = IF to = "refresh" THEN @ ELSE Nil]
    /\ UNCHANGED <<connVars, slotVars, regVars, channelReady, wDone, wOpt,
                   closeVars, loopVars, events, last>>

\* ------------------------------------------------------------- CloseChannel
\* CloseChannel(ID) is called for an identity that has a channel:
\* c.channelDone.Get(ID) is evaluated and the send blocks
CloseChannelCall(id) ==
    /\ events < MaxEvents
    /\ events' = events + 1
    /\ cpc[id] = "idle"
    /\ channelDone[id] # Nil
    /\ cpc' = [cpc EXCEPT ![id] = "send"]
    /\ cDone' = [cDone EXCEPT ![id] = channelDone[id]]
    /\ UNCHANGED <<connVars, slotVars, regVars, channelReady, watchVars, loopVars, last>>

\* the unbuffered send meets a watcher's case <-c.channelDone.Get(ID)
ListenChannelDone(id, k) ==
    /\ cpc[id] = "send"
    /\ wpc[k] = "select"
    /\ wDone[k] = cDone[id]
    /\ cpc' = [cpc EXCEPT ![id] = "close"]
    /\ cDone' = [cDone EXCEPT ![id] = Nil]
    /\ wpc' = [wpc EXCEPT ![k] = "stopped"]
    /\ wNotify' = [wNotify EXCEPT ![k] = Nil]
    /\ wDone' = [wDone EXCEPT ![k] = Nil]
    /\ UNCHANGED <<connVars, slotVars, regVars, channelReady, wOpt, loopVars, events, last>>

\* return c.channel.Get(ID).Close()
CloseChannelReturn(id) ==
    /\ cpc[id] = "close"
    /\ LET k == channel[id] IN
         /\ chState' = [chState EXCEPT ![k] = IF @ = "open" THEN "closed" ELSE @]
         /\ last' = [op |-> "CloseChannel", id |-> id, err |-> chState[k] # "open"]
    /\ cpc' = [cpc EXCEPT ![id] = "idle"]
    /\ UNCHANGED <<connVars, nextSlot, owner, consumer, regVars, channelReady,
                   watchVars, cDone, loopVars, events>>

\* ------------------------------------------------------- per-message loop
\* the broker puts a delivery on the stream of a consuming channel
Deliver(k, body) ==
    /\ chState[k] = "open"
    /\ consumer[k] # NoOption
    /\ events < MaxEvents
    /\ events' = events + 1
    /\ Len(msgs[k]) < MaxQueue
    /\ msgs' = [msgs EXCEPT ![k] = Append(@, body)]
    /\ UNCHANGED <<connVars, slotVars, regVars, channelReady, watchVars, closeVars,
                   lpc, cur, handled, last>>

\* for d := range msgs, then actions.Fetch: the forwarder answers with a
\* response payload and an error list
LoopFetch(k) ==
    /\ lpc[k] = "wait"
    /\ msgs[k] # <<>>
    /\ \E errs \in ErrLists, resp \in Payloads \cup {"none"} :
         /\ (errs = <<>>) <=> (resp # "none")
         /\ cur' = [cur EXCEPT ![k] = [body |-> Head(msgs[k]), errs |-> errs, resp |-> resp]]
    /\ msgs' = [msgs EXCEPT ![k] = Tail(@)]
    /\ lpc' = [lpc EXCEPT ![k] = "fetched"]
    /\ UNCHANGED <<connVars, slotVars, regVars, channelReady, watchVars, closeVars,
                   handled, last, events>>

\* a validation that lets every body through
BodyValidAlways(body) == TRUE

\* jsoniter.Valid(d.Body)
BodyValid(body) == body = "wellformed"

\* value.Error()
ErrorText(e) == e.text

\* an error-list branch that acknowledges the delivery
OnForwardErrsAcked(option, d) ==
    [ack |-> 1, nack |-> 0, requeue |-> FALSE,
     message |-> [Identity |-> option.Identity, Queue |-> option.Queue, Status |-> FALSE,
                  Response |-> [errs |-> [i \in 1..Len(d.errs) |-> ErrorText(d.errs[i])]]]]

\* the error-list branch: what the loop does with the delivery and the message it builds
OnForwardErrs(option, d) ==
    [ack |-> 0, nack |-> 1, requeue |-> FALSE,
     message |-> [Identity |-> option.Identity, Queue |-> option.Queue, Status |-> FALSE,
                  Response |-> [errs |-> [i \in 1..Len(d.errs) |-> ErrorText(d.errs[i])]]]]

\* a response handling that parses whatever the forwarder returned
ResponseRecordParsed(resp) == [json |-> resp]

\* gojsonschema.Validate against {"type":"object"} and the Response it leads to
ResponseRecord(resp) ==
    IF resp = "unparsable" THEN [raw |-> resp]
    ELSE IF resp = "object" THEN [json |-> resp]
    ELSE [raw |-> resp]

\* an empty-error-list branch that reports the delivery as failed
OnForwardOkFailed(option, d) ==
    [ack |-> 1, nack |-> 0, requeue |-> FALSE,
     message |-> [Identity |-> option.Identity, Queue |-> option.Queue, Status |-> FALSE,
                  Response |-> ResponseRecord(d.resp)]]

\* the empty-error-list branch
OnForwardOk(option, d) ==
    [ack |-> 1, nack |-> 0, requeue |-> FALSE,
     message |-> [Identity |-> option.Identity, Queue |-> option.Queue, Status |-> TRUE,
                  Response |-> ResponseRecord(d.resp)]]

\* HasError of the LoggingPush
HasError(errs) == Len(errs) # 0

\* the rest of the loop body: validate the body, reject or acknowledge, push the audit record
LoopHandle(k) ==
    /\ lpc[k] = "fetched"
    /\ LET d == cur[k]
           option == consumer[k] IN
         IF ~BodyValid(d.body)
           THEN /\ handled' = [slot |-> k, d |-> d, ack |-> 0, nack |-> 1, requeue |-> FALSE,
                               pushes |-> <<>>]
                /\ lpc' = [lpc EXCEPT ![k] = "returned"]
           ELSE LET o == IF Len(d.errs) # 0 THEN OnForwardErrs(option, d)
                                            ELSE OnForwardOk(option, d) IN
                /\ handled' = [slot |-> k, d |-> d, ack |-> o.ack, nack |-> o.nack,
                               requeue |-> o.requeue,
                               pushes |-> <<[Identity |-> option.Identity,
                                             HasError |-> HasError(d.errs),
                                             Message |-> o.message]>>]
                /\ lpc' = [lpc EXCEPT ![k] = "wait"]
    /\ cur' = [cur EXCEPT ![k] = NoDelivery]
    /\ UNCHANGED <<connVars, slotVars, regVars, channelReady, watchVars, closeVars,
                   msgs, last, events>>

\* the stream is closed and drained: range ends
LoopEnd(k) ==
    /\ lpc[k] = "wait"
    /\ msgs[k] = <<>>
    /\ IsClosed(k)
    /\ lpc' = [lpc EXCEPT ![k] = "ended"]
    /\ UNCHANGED <<connVars, slotVars, regVars, channelReady, watchVars, closeVars,
                   msgs, cur, handled, last, events>>

\* ----------------------------------------------------------- specifications
\* the supervision of the connection and of the channels
Next ==
    \/ ConnClose
    \/ ListenConn
    \/ Reconnected
    \/ \E k \in Slots : BrokerClose(k)
    \/ \E id \in IDs : SetChannel(id)
    \/ \E id \in IDs : SetConsume(id)
    \/ \E k \in Slots : ListenChannelStart(k)
    \/ \E k \in Slots : ListenChannelNotified(k)
    \/ \E k \in Slots : RefreshChannelOpen(k)
    \/ \E k \in Slots : RefreshChannelConsume(k)
    \/ \E k \in Slots : RefreshChannelCheck(k)
    \/ \E id \in IDs : CloseChannelCall(id)
    \/ \E id \in IDs, k \in Slots : ListenChannelDone(id, k)
    \/ \E id \in IDs : CloseChannelReturn(id)
    \/ \E k \in Slots : LoopEnd(k)

Spec == Init /\ [][Next]_vars

\* every goroutine that can take a step eventually takes one
Fairness ==
    /\ WF_vars(ListenConn)
    /\ WF_vars(Reconnected)
    /\ \A k \in Slots :
         WF_vars(ListenChannelStart(k) \/ ListenChannelNotified(k)
                 \/ RefreshChannelOpen(k) \/ RefreshChannelConsume(k)
                 \/ RefreshChannelCheck(k))
    /\ \A id \in IDs : WF_vars(CloseChannelReturn(id))
    /\ \A id \in IDs, k \in Slots : WF_vars(ListenChannelDone(id, k))
    /\ \A k \in Slots : WF_vars(LoopEnd(k))

FairSpec == Init /\ [][Next]_vars /\ Fairness

\* the connection watcher, with channels opened on the connection it supervises
NextConn ==
    \/ ConnClose
    \/ ListenConn
    \/ Reconnected
    \/ \E id \in IDs : SetChannel(id)
    \/ \E k \in Slots : ListenChannelStart(k)
    \/ \E k \in Slots : ListenChannelNotified(k)

FairConnSpec == Init /\ [][NextConn]_vars /\ WF_vars(ListenConn) /\ WF_vars(Reconnected)

\* the consumer dispatch loops of channels that stay on an open connection
NextDispatch ==
    \/ \E k \in Slots : BrokerClose(k)
    \/ \E id \in IDs : SetChannel(id)
    \/ \E id \in IDs : SetConsume(id)
    \/ \E k \in Slots : ListenChannelStart(k)
    \/ \E k \in Slots : ListenChannelNotified(k)
    \/ \E k \in Slots : RefreshChannelOpen(k)
    \/ \E k \in Slots : RefreshChannelConsume(k)
    \/ \E k \in Slots : RefreshChannelCheck(k)
    \/ \E k \in Slots, body \in Bodies : Deliver(k, body)
    \/ \E k \in Slots : LoopFetch(k)
    \/ \E k \in Slots : LoopHandle(k)
    \/ \E k \in Slots : LoopEnd(k)

SpecDispatch == Init /\ [][NextDispatch]_vars

\* the dispatch loops, every loop and every watcher taking the steps it can take
FairnessDispatch ==
    /\ \A k \in Slots : WF_vars(LoopFetch(k) \/ LoopHandle(k) \/ LoopEnd(k))
    /\ \A k \in Slots :
         WF_vars(ListenChannelStart(k) \/ ListenChannelNotified(k)
                 \/ RefreshChannelOpen(k) \/ RefreshChannelConsume(k)
                 \/ RefreshChannelCheck(k))

FairDispatchSpec == Init /\ [][NextDispatch]_vars /\ FairnessDispatch

\* the calls, watchers and loops of the identities on a connection that stays open
NextIdentities ==
    \/ NextDispatch
    \/ \E id \in IDs : CloseChannelCall(id)
    \/ \E id \in IDs, k \in Slots : ListenChannelDone(id, k)
    \/ \E id \in IDs : CloseChannelReturn(id)

SpecIdentities == Init /\ [][NextIdentities]_vars

\* ------------------------------------------------------------------ claims
LiveChannels(id) == {k \in Slots : owner[k] = id /\ chState[k] = "open"}

\* C1: in every reachable state every identity has at most one live channel
\* (opened for it and not yet closed).
C1_OneLiveChannel == \A id \in IDs : Cardinality(LiveChannels(id)) <= 1

\* C2: CloseChannel never makes the refresh procedure run: no watcher is in
\* refreshChannel because of a close notification that CloseChannel's own
\* Close() produced.
C2_CloseNeverRefreshes ==
    \A k \in Slots : wpc[k] \in {"refresh", "consume"} => chState[wNotify[k]] # "closed"

C6_NoChannelWhileDown ==
    [][~connOpen =>
         /\ \A id \in IDs : SetChannel(id) => last' = [op |-> "SetChannel", id |-> id, err |-> TRUE]
         /\ \A k \in Slots : wpc[k] = "refresh" => wpc'[k] = "refresh"
         /\ regVars' = regVars
         /\ nextSlot' = nextSlot
         /\ \A k \in Slots : wpc[k] = "none" => wpc'[k] = "none"]_vars

C6_Witness ==
    /\ ~connOpen
    /\ last.op = "SetChannel"
    /\ last.err
    /\ \E k \in Slots : wpc[k] = "refresh"

\* the per-message loops a step spawns for an identity
Spawned(id) == {k \in Slots : owner[k] = id /\ lpc[k] = "none" /\ lpc'[k] = "wait"}

\* C7: a SetConsume that cannot establish the stream leaves the readiness
\* flag false, returns the error and spawns no loop; one that establishes it
\* leaves the flag true and spawns exactly one loop; no other step writes the
\* flag or spawns a loop.
C7_ReadyBySetConsume ==
    [][\A id \in IDs :
         LET outside == SetConsume(id)
             refresh == \E k \in Slots : owner[k] = id /\ RefreshChannelConsume(k)
             failed == IF outside THEN last'.err
                       ELSE \E k \in Slots : /\ owner[k] = id
                                              /\ RefreshChannelConsume(k)
                                              /\ wpc'[k] # "refreshed"
         IN  IF outside \/ refresh
               THEN IF failed
                      THEN ~channelReady'[id] /\ Spawned(id) = {}
                      ELSE channelReady'[id] /\ Cardinality(Spawned(id)) = 1
               ELSE channelReady'[id] = channelReady[id] /\ Spawned(id) = {}]_vars

C7_Witness ==
    /\ last.op = "SetConsume"
    /\ last.err
    /\ ~channelReady[last.id]
    /\ \E k \in Slots : owner[k] = last.id /\ lpc[k] # "none"

\* C9: a delivery with a well-formed body for which the forwarder returned
\* errors is rejected without requeue, never acknowledged, and gets exactly
\* one audit record: Status false, one message per forwarder error, HasError.
C9_ForwardErrsRejected ==
    (handled.slot # Nil /\ handled.d.body = "wellformed" /\ handled.d.errs # <<>>)
    => /\ handled.nack = 1
       /\ ~handled.requeue
       /\ handled.ack = 0
       /\ Len(handled.pushes) = 1
       /\ LET p == handled.pushes[1] IN
            /\ p.HasError
            /\ p.Identity = owner[handled.slot]
            /\ p.Message.Status = FALSE
            /\ Len(p.Message.Response.errs) = Len(handled.d.errs)
            /\ \A i \in 1..Len(handled.d.errs) :
                 p.Message.Response.errs[i] = handled.d.errs[i].text

C9_Witness ==
    /\ handled.d.body = "wellformed"
    /\ Len(handled.d.errs) > 1
    /\ handled.nack = 1
    /\ Len(handled.pushes) = 1

\* C10: a delivery with a well-formed body for which the forwarder returned
\* no error is acknowledged, never rejected, and gets exactly one audit
\* record with Status true and HasError false, whatever the response payload.
C10_ForwardOkAcked ==
    (handled.slot # Nil /\ handled.d.body = "wellformed" /\ handled.d.errs = <<>>)
    => /\ handled.ack = 1
       /\ handled.nack = 0
       /\ Len(handled.pushes) = 1
       /\ LET p == handled.pushes[1] IN
            /\ ~p.HasError
            /\ p.Identity = owner[handled.slot]
            /\ p.Message.Status = TRUE

C10_Witness ==
    /\ handled.d.body = "wellformed"
    /\ handled.d.errs = <<>>
    /\ handled.d.resp = "unparsable"
    /\ handled.ack = 1
    /\ Len(handled.pushes) = 1

\* C5: whenever the connection is closed, the connection watcher eventually
\* has a new open connection installed, its close notification armed and a
\* watcher listening on it again.
C5_Reconnects ==
    (~connOpen) ~> (connOpen /\ notifyConnClose = "rearmed" /\ connPc = "listen")

C5_Witness ==
    /\ connOpen
    /\ notifyConnClose = "rearmed"
    /\ connPc = "listen"
    /\ \E k \in Slots : chState[k] = "lost"

\* C8: a CloseChannel call that has reached its done-signal send eventually returns.
C8_CloseCompletes ==
    \A id \in IDs : (cpc[id] = "send") ~> (cpc[id] = "idle")

\* the registered channel of the identity was closed by the broker or with the
\* connection while the identity is ready, a watcher is selecting on its
\* close notification and no teardown is in flight
LostWhileReady(id) ==
    /\ channel[id] # Nil
    /\ chState[channel[id]] = "lost"
    /\ channelReady[id]
    /\ cpc[id] = "idle"
    /\ \E k \in Slots : owner[k] = id /\ wpc[k] = "select" /\ wNotify[k] = channel[id]

\* the identity has a live channel consuming with the configuration stored for it
Consuming(id) ==
    /\ channel[id] # Nil
    /\ chState[channel[id]] = "open"
    /\ consumer[channel[id]] = SchemaGet(id)
    /\ lpc[channel[id]] = "wait"

\* C3: once the channel of a ready identity is lost, and with no further
\* fault and no call from outside (the event budget is used up), the identity
\* eventually consumes again on a new live channel.
C3_Recovers ==
    \A id \in IDs :
        (LostWhileReady(id) /\ events = MaxEvents) ~> (Consuming(id) \/ nextSlot = MaxSlots)

\* C11: on the forwarder-success path the Response of the audit record is the
\* parsed response exactly when the payload is object-shaped JSON; for a valid
\* non-object payload and for unparsable text it is {raw: the response text}.
C11_ResponseMapping ==
    (handled.slot # Nil /\ handled.d.body = "wellformed" /\ handled.d.errs = <<>>)
    => /\ Len(handled.pushes) = 1
       /\ LET r == handled.pushes[1].Message.Response
              p == handled.d.resp IN
            /\ p \in Payloads
            /\ p = "object" => r = [json |-> p]
            /\ p = "nonobject" => r = [raw |-> p]
            /\ p = "unparsable" => r = [raw |-> p]

C11_Witness ==
    /\ handled.d.body = "wellformed"
    /\ handled.d.errs = <<>>
    /\ handled.d.resp = "nonobject"
    /\ Len(handled.pushes) = 1
    /\ handled.pushes[1].Message.Response = [raw |-> "nonobject"]

\* C12: a delivery with a malformed body is rejected without requeue, never
\* acknowledged, and no audit record is pushed for it.
C12_MalformedRejected ==
    (handled.slot # Nil /\ handled.d.body = "malformed")
    => /\ handled.nack = 1
       /\ ~handled.requeue
       /\ handled.ack = 0
       /\ handled.pushes = <<>>

C12_Witness ==
    /\ handled.slot # Nil
    /\ handled.d.body = "malformed"
    /\ handled.nack = 1
    /\ handled.pushes = <<>>

\* C13: every delivery placed on a stream is eventually taken by the loop and
\* acknowledged or rejected: a stream that holds deliveries is eventually
\* drained with no delivery left in the loop's hands.
C13_EveryDeliverySettled ==
    \A k \in Slots : (msgs[k] # <<>>) ~> (msgs[k] = <<>> /\ lpc[k] # "fetched")

\* C14: the forwarder has been called for a delivery (the loop holds its
\* answer) only if the body of the delivery is well-formed.
C14_ForwardOnlyWellFormed ==
    \A k \in Slots : lpc[k] = "fetched" => cur[k].body = "wellformed"

\* C15: a per-message loop that has terminated belongs to a stream that is
\* closed: while the channel is open the loop goes on to the next delivery.
C15_LoopLivesWithStream ==
    \A k \in Slots : lpc[k] \in {"returned", "ended"} => IsClosed(k)

Watchers(id) ==
    {k \in Slots : owner[k] = id /\ wpc[k] \in {"select", "refresh", "consume", "check"}}

\* C17: in every reachable state an identity has at most one channel watcher
\* (selecting in listenChannel or running refreshChannel).
C17_OneWatcher == \A id \in IDs : Cardinality(Watchers(id)) <= 1

\* C18: once CloseChannel(ID) has closed the channel registered for the
\* identity, and for as long as that closed channel stays registered (no
\* SetConsume can have succeeded since), the readiness flag of ID is false.
C18_NotReadyAfterClose ==
    \A id \in IDs :
        (channel[id] # Nil /\ chState[channel[id]] = "closed" /\ cpc[id] = "idle")
        => ~channelReady[id]

\* the per-message loops of an identity that hold a delivery: the forwarder
\* was called for it, the ack/reject and the audit push are still to come
Handling(id) == {k \in Slots : owner[k] = id /\ lpc[k] = "fetched"}

\* C20: at no time do two per-message loops of one identity each handle a
\* delivery: the forwarder call of a delivery comes after the ack/reject and
\* audit push of the delivery before it.
C20_OneLoopInOrder == \A id \in IDs : Cardinality(Handling(id)) <= 1

\* a step taken on behalf of identity A: a call for A, a step of a watcher or
\* loop of A, the failure of a channel of A
OnBehalf(A) ==
    \/ SetChannel(A)
    \/ SetConsume(A)
    \/ CloseChannelCall(A)
    \/ CloseChannelReturn(A)
    \/ \E k \in Slots : ListenChannelDone(A, k)
    \/ \E k \in Slots :
         /\ owner[k] = A
         /\ \/ BrokerClose(k)
            \/ ListenChannelStart(k)
            \/ ListenChannelNotified(k)
            \/ RefreshChannelOpen(k)
            \/ RefreshChannelConsume(k)
            \/ RefreshChannelCheck(k)
            \/ LoopFetch(k)
            \/ LoopHandle(k)
            \/ LoopEnd(k)

\* the step changes something the drive holds for identity B: a registry
\* entry, its teardown in flight, or a channel, watcher or loop opened for it
FrameChanged(B) ==
    \/ channel'[B] # channel[B]
    \/ channelDone'[B] # channelDone[B]
    \/ channelReady'[B] # channelReady[B]
    \/ notifyChanClose'[B] # notifyChanClose[B]
    \/ cpc'[B] # cpc[B]
    \/ cDone'[B] # cDone[B]
    \/ \E k \in Slots :
         /\ owner[k] = B \/ owner'[k] = B
         /\ \/ owner'[k] # owner[k]
            \/ chState'[k] # chState[k]
            \/ consumer'[k] # consumer[k]
            \/ wpc'[k] # wpc[k]
            \/ wNotify'[k] # wNotify[k]
            \/ wDone'[k] # wDone[k]
            \/ wOpt'[k] # wOpt[k]
            \/ lpc'[k] # lpc[k]
            \/ msgs'[k] # msgs[k]
            \/ cur'[k] # cur[k]

\* C19: a step taken on behalf of one identity leaves unchanged the registry
\* entries, channels, watchers and per-message loops of every other identity,
\* and the connection and its watcher: a step that changes any of these for
\* identity B is not a step taken on behalf of another identity.
C19_FrameOfOtherIdentities ==
    [][/\ connVars' # connVars => \A A \in IDs : ~OnBehalf(A)
       /\ \A B \in IDs :
            FrameChanged(B) => \A A \in IDs \ {B} : ~OnBehalf(A)]_vars

C19_Witness ==
    \E k, j \in Slots :
        /\ owner[k] = "a" /\ owner[j] = "b"
        /\ lpc[k] = "returned"
        /\ lpc[j] = "wait" /\ chState[j] = "open" /\ channelReady["b"]
        /\ wpc[j] = "select"

====
